---- MODULE Spec2Model ----
(***************************************************************************)
(* Credit ledger, subscription state and Stripe webhook reconciliation of  *)
(* the billing subsystem (backend/src/billing).                            *)
(*                                                                         *)
(* The data store is the shared state: organizations.credit_balance,       *)
(* credit_transactions, organization_subscriptions and billing_history of  *)
(* one organization.  Every supabase ...execute() call is one atomic       *)
(* statement of the store; requests handled by different server workers    *)
(* interleave between statements.  The invitations of the organization    *)
(* service (backend/src/organization) are modelled on the invitations and  *)
(* user_roles tables.                                                      *)
(***************************************************************************)
EXTENDS Integers, Sequences, FiniteSets, TLC

(***************************************************************************)
(* Bounds of the model.                                                    *)
(***************************************************************************)
MaxCalls == 2
MaxDeliveries == 2
MaxRequests == 3
MaxInitialBalance == 1
MaxInvitationCalls == 3
MaxDays == 8

\* Request slots: the requests that may be in flight at the same time.
Procs == {1, 2}

\* Python None / SQL NULL.
None == "None"

(***************************************************************************)
(* Enumerations of billing/models.py.                                      *)
(***************************************************************************)
TransactionSource ==
    {"subscription", "purchase", "event_consumption", "expiry", "refund",
     "admin_adjustment"}

SOURCES_REQUIRING_ID ==
    {"subscription", "purchase", "event_consumption", "refund"}

SOURCES_WITHOUT_ID == {"expiry", "admin_adjustment"}

requires_source_id(source) == source \in SOURCES_REQUIRING_ID

\* The mutation drops the branch for the sources that take no source_id.
get_validation_error_NoForbiddenCheck(source, source_id) ==
    IF requires_source_id(source) /\ source_id = None
    THEN "requires source_id"
    ELSE None

\* None when the pairing is valid, else the error message.
get_validation_error(source, source_id) ==
    IF requires_source_id(source) /\ source_id = None
    THEN "requires source_id"
    ELSE IF source \in SOURCES_WITHOUT_ID /\ source_id # None
         THEN "should not have a source_id"
         ELSE None

(***************************************************************************)
(* Catalogue rows the operations look up (subscription_plans,              *)
(* credit_events).  The rows are data of the store, chosen small.          *)
(***************************************************************************)
PlanIds == {"free", "basic", "pro"}

\* trial_period_days 0 stands for both None and 0: the code only tests its
\* truthiness.
SubscriptionPlans ==
    [free  |-> [included_credits |-> 0, trial_period_days |-> 0],
     basic |-> [included_credits |-> 1, trial_period_days |-> 0],
     pro   |-> [included_credits |-> 2, trial_period_days |-> 14]]

\* credit_events rows that are active, by name: id and credit_cost.
CreditEvents == [api_call |-> [id |-> "evt1", credit_cost |-> 1]]

EventNames == {"api_call", "unknown_event"}

VARIABLES
    credit_balance,              \* organizations.credit_balance
    credit_transactions,         \* rows of credit_transactions, in insert order
    organization_subscriptions,  \* rows of organization_subscriptions
    billing_history,             \* rows of billing_history, in insert order
    pc,                          \* per request slot: the statement it is at
    call,                        \* per request slot: the call in progress
    current_balance,             \* per request slot: the balance it selected
    started,                     \* per request slot: id, start snapshot, overlaps
    hist,                        \* completed calls and deliveries, in completion order
    invitations,                 \* rows of invitations, in insert order
    user_roles,                  \* rows of user_roles, in insert order
    now                          \* the clock, in days

\* The invitations table, the user_roles table and the clock.
membership == <<invitations, user_roles, now>>

vars == <<credit_balance, credit_transactions, organization_subscriptions,
          billing_history, pc, call, current_balance, started, hist,
          invitations, user_roles, now>>

store == <<credit_balance, credit_transactions, organization_subscriptions,
           billing_history>>

(***************************************************************************)
(* Helpers.                                                                *)
(***************************************************************************)
RECURSIVE SumAmounts(_)
SumAmounts(txs) ==
    IF txs = <<>> THEN 0 ELSE txs[1].amount + SumAmounts(Tail(txs))

Snapshot(bal, txs, subs, bills) ==
    [bal |-> bal, txs |-> txs, subs |-> subs, bills |-> bills]

Now == Snapshot(credit_balance, credit_transactions,
                organization_subscriptions, billing_history)

Running == {p \in Procs : pc[p] # "idle"}

NoCall == [op |-> "none"]

NoStart == [id |-> 0, pre |-> Snapshot(0, <<>>, {}, <<>>), conc |-> {}]

(***************************************************************************)
(* Rows written by the ledger operations.                                  *)
(***************************************************************************)
Row(type, amount, balance_after, source, source_id) ==
    [transaction_type |-> type, amount |-> amount,
     balance_after |-> balance_after, source |-> source,
     source_id |-> source_id]

\* _add_credits: the CreditTransactionCreate and the inserted dict.
AddRow(c, new_balance) ==
    Row(IF c.source = "subscription" THEN "earned" ELSE "purchased",
        c.credits, new_balance, c.source, c.source_id)

\* The mutation records the target as the amount.
ResetRow_AmountIsTarget(c, cur) ==
    Row(IF c.credits - cur > 0 THEN "earned" ELSE "consumed",
        c.credits, c.credits, "subscription", c.subscription_id)

\* reset_subscription_credits: the row for the adjustment.
ResetRow(c, cur) ==
    Row(IF c.credits - cur > 0 THEN "earned" ELSE "consumed",
        c.credits - cur, c.credits, "subscription", c.subscription_id)

\* The mutation charges one unit whatever the quantity.
credits_needed_IgnoresQuantity(c) == CreditEvents[c.event_name].credit_cost

\* credits_needed = credit_event.credit_cost * quantity
credits_needed(c) == CreditEvents[c.event_name].credit_cost * c.quantity

\* consume_credits: the consumption row.
ConsumeRow(c, new_balance) ==
    Row("consumed", 0 - credits_needed(c), new_balance, "event_consumption",
        CreditEvents[c.event_name].id)

\* The mutation debits without looking at the balance.
InsufficientBalance_NotChecked(cur, needed) == FALSE

\* The mutation compares against zero instead of the credits needed.
InsufficientBalance_IgnoresCost(cur, needed) == cur <= 0

\* consume_credits: if current_balance < credits_needed.
InsufficientBalance(cur, needed) == cur < needed

\* The mutation never takes the early return.
AlreadyAtTarget_Never(credits, cur) == FALSE

\* reset_subscription_credits: if credit_difference == 0.
AlreadyAtTarget(credits, cur) == credits - cur = 0

(***************************************************************************)
(* The calls a request can make on the ledger.                             *)
(***************************************************************************)
AddCall(credits, source, source_id) ==
    [op |-> "add_credits", credits |-> credits, source |-> source,
     source_id |-> source_id]

\* add_subscription_credits delegates with source subscription.
add_subscription_credits(credits, subscription_id) ==
    AddCall(credits, "subscription", subscription_id)

\* add_purchased_credits delegates with source purchase and no source_id.
add_purchased_credits(credits) == AddCall(credits, "purchase", None)

ResetCall(credits, subscription_id) ==
    [op |-> "reset_credits", credits |-> credits,
     subscription_id |-> subscription_id]

ConsumeCall(event_name, quantity) ==
    [op |-> "consume_credits", event_name |-> event_name,
     quantity |-> quantity]

SourceIds == {None, "ref1"}

\* Every source/source_id pairing.
AddCalls == {AddCall(1, s, i) : s \in TransactionSource, i \in SourceIds}

\* The additions made while other requests are in flight: the two public
\* entry points, and a purchase that names its product.
ConcurrentAddCalls ==
    {add_subscription_credits(1, i) : i \in SourceIds}
    \cup {add_purchased_credits(1), AddCall(1, "purchase", "ref1")}

ResetCalls ==
    {ResetCall(SubscriptionPlans[pl].included_credits, "sub1") : pl \in PlanIds}

ConsumeCalls ==
    {ConsumeCall("api_call", q) : q \in {1, 2}}
    \cup {ConsumeCall("unknown_event", 1)}

(***************************************************************************)
(* Initial state: the organization exists, with no subscription and no     *)
(* billing history.  Its balance is 0 with an empty ledger, or it holds    *)
(* credits recorded by an earlier purchase row.                            *)
(***************************************************************************)
InitialLedger(b) ==
    IF b = 0 THEN <<>>
    ELSE << Row("purchased", b, b, "purchase", "ref1") >>

Init ==
    /\ credit_balance \in 0..MaxInitialBalance
    /\ credit_transactions = InitialLedger(credit_balance)
    /\ organization_subscriptions = {}
    /\ billing_history = <<>>
    /\ pc = [p \in Procs |-> "idle"]
    /\ call = [p \in Procs |-> NoCall]
    /\ current_balance = [p \in Procs |-> 0]
    /\ started = [p \in Procs |-> NoStart]
    /\ hist = <<>>
    /\ invitations = <<>>
    /\ user_roles = <<>>
    /\ now = 0

(***************************************************************************)
(* Bookkeeping of a call: start and completion.                            *)
(***************************************************************************)
\* A request begins call c.  Slots are interchangeable, so the lowest idle
\* slot is taken.
Begin(p, c) ==
    /\ pc[p] = "idle"
    /\ Len(hist) + Cardinality(Running) < MaxCalls
    /\ \A q \in Procs : q < p => pc[q] # "idle"
    /\ LET id == Len(hist) + Cardinality(Running) + 1 IN
         started' = [q \in Procs |->
            IF q = p
            THEN [id |-> id, pre |-> Now,
                  conc |-> {started[r].id : r \in Running}]
            ELSE IF q \in Running
                 THEN [started[q] EXCEPT !.conc = @ \cup {id}]
                 ELSE started[q]]
    /\ call' = [call EXCEPT ![p] = c]
    /\ pc' = [pc EXCEPT ![p] = "select"]
    /\ UNCHANGED <<store, current_balance, hist>>

\* The call of slot p ends: raised tells whether it ended in an exception,
\* fault whether the store failed a statement, result is what it returned.
End(p, cur, post, raised, fault, result) ==
    /\ hist' = Append(hist,
          [id |-> started[p].id, call |-> call[p], pre |-> started[p].pre,
           conc |-> started[p].conc, current_balance |-> cur, post |-> post,
           raised |-> raised, fault |-> fault, result |-> result])
    /\ pc' = [pc EXCEPT ![p] = "idle"]
    /\ call' = [call EXCEPT ![p] = NoCall]
    /\ current_balance' = [current_balance EXCEPT ![p] = 0]
    /\ started' = [started EXCEPT ![p] = NoStart]

NoResult == [returned |-> "nothing"]

(***************************************************************************)
(* BillingService._add_credits, statement by statement.                    *)
(***************************************************************************)
CallAddCredits(p) ==
    /\ UNCHANGED membership
    /\ \E c \in ConcurrentAddCalls : Begin(p, c)

add_credits_select(p) ==
    /\ UNCHANGED membership
    /\ pc[p] = "select" /\ call[p].op = "add_credits"
    /\ current_balance' = [current_balance EXCEPT ![p] = credit_balance]
    /\ pc' = [pc EXCEPT ![p] = "update"]
    /\ UNCHANGED <<store, call, started, hist>>

\* The balance update; CreditTransactionCreate is built right after it and
\* raises ValueError on an invalid pairing, before any other statement.
add_credits_update(p) ==
    /\ UNCHANGED membership
    /\ pc[p] = "update" /\ call[p].op = "add_credits"
    /\ credit_balance' = current_balance[p] + call[p].credits
    /\ UNCHANGED <<credit_transactions, organization_subscriptions,
                   billing_history>>
    /\ IF get_validation_error(call[p].source, call[p].source_id) # None
       THEN End(p, current_balance[p],
                Snapshot(credit_balance', credit_transactions,
                         organization_subscriptions, billing_history),
                TRUE, FALSE, NoResult)
       ELSE /\ pc' = [pc EXCEPT ![p] = "insert"]
            /\ UNCHANGED <<call, current_balance, started, hist>>

add_credits_insert(p) ==
    /\ UNCHANGED membership
    /\ pc[p] = "insert" /\ call[p].op = "add_credits"
    /\ LET c == call[p]
           cur == current_balance[p]
           row == AddRow(c, cur + c.credits)
       IN \E ok \in BOOLEAN :
               IF ok
               THEN /\ credit_transactions' = Append(credit_transactions, row)
                    /\ UNCHANGED <<credit_balance, organization_subscriptions,
                                   billing_history>>
                    /\ End(p, cur,
                           Snapshot(credit_balance, credit_transactions',
                                    organization_subscriptions, billing_history),
                           FALSE, FALSE,
                           [returned |-> "transaction", row |-> row])
               ELSE \* the insert fails or returns no data
                    /\ UNCHANGED store
                    /\ End(p, cur, Now, TRUE, TRUE, NoResult)

(***************************************************************************)
(* BillingService.reset_subscription_credits, statement by statement.      *)
(***************************************************************************)
CallResetCredits(p) ==
    /\ UNCHANGED membership
    /\ \E c \in ResetCalls : Begin(p, c)

reset_credits_select(p) ==
    /\ UNCHANGED membership
    /\ pc[p] = "select" /\ call[p].op = "reset_credits"
    /\ IF AlreadyAtTarget(call[p].credits, credit_balance)
       THEN /\ UNCHANGED store
            /\ End(p, credit_balance, Now, FALSE, FALSE, [returned |-> "None"])
       ELSE /\ current_balance' = [current_balance EXCEPT ![p] = credit_balance]
            /\ pc' = [pc EXCEPT ![p] = "update"]
            /\ UNCHANGED <<store, call, started, hist>>

reset_credits_update(p) ==
    /\ UNCHANGED membership
    /\ pc[p] = "update" /\ call[p].op = "reset_credits"
    /\ credit_balance' = call[p].credits
    /\ UNCHANGED <<credit_transactions, organization_subscriptions,
                   billing_history>>
    /\ IF get_validation_error("subscription", call[p].subscription_id) # None
       THEN End(p, current_balance[p],
                Snapshot(credit_balance', credit_transactions,
                         organization_subscriptions, billing_history),
                TRUE, FALSE, NoResult)
       ELSE /\ pc' = [pc EXCEPT ![p] = "insert"]
            /\ UNCHANGED <<call, current_balance, started, hist>>

reset_credits_insert(p) ==
    /\ UNCHANGED membership
    /\ pc[p] = "insert" /\ call[p].op = "reset_credits"
    /\ LET c == call[p]
           cur == current_balance[p]
           row == ResetRow(c, cur)
       IN \E ok \in BOOLEAN :
               IF ok
               THEN /\ credit_transactions' = Append(credit_transactions, row)
                    /\ UNCHANGED <<credit_balance, organization_subscriptions,
                                   billing_history>>
                    /\ End(p, cur,
                           Snapshot(credit_balance, credit_transactions',
                                    organization_subscriptions, billing_history),
                           FALSE, FALSE,
                           [returned |-> "transaction", row |-> row])
               ELSE /\ UNCHANGED store
                    /\ End(p, cur, Now, TRUE, TRUE, NoResult)

(***************************************************************************)
(* BillingService.consume_credits, statement by statement.                 *)
(***************************************************************************)
CallConsumeCredits(p) ==
    /\ UNCHANGED membership
    /\ \E c \in ConsumeCalls : Begin(p, c)

consume_credits_select(p) ==
    /\ UNCHANGED membership
    /\ pc[p] = "select" /\ call[p].op = "consume_credits"
    /\ IF call[p].event_name \notin DOMAIN CreditEvents
       THEN \* credit event not found or inactive: ValueError
            /\ UNCHANGED store
            /\ End(p, 0, Now, TRUE, FALSE, NoResult)
       ELSE IF InsufficientBalance(credit_balance, credits_needed(call[p]))
            THEN /\ UNCHANGED store
                 /\ End(p, credit_balance, Now, FALSE, FALSE,
                        [returned |-> "response", success |-> FALSE,
                         credits_consumed |-> 0,
                         balance_after |-> credit_balance])
            ELSE /\ current_balance' =
                        [current_balance EXCEPT ![p] = credit_balance]
                 /\ pc' = [pc EXCEPT ![p] = "update"]
                 /\ UNCHANGED <<store, call, started, hist>>

consume_credits_update(p) ==
    /\ UNCHANGED membership
    /\ pc[p] = "update" /\ call[p].op = "consume_credits"
    /\ credit_balance' = current_balance[p] - credits_needed(call[p])
    /\ UNCHANGED <<credit_transactions, organization_subscriptions,
                   billing_history>>
    /\ IF get_validation_error("event_consumption",
                               CreditEvents[call[p].event_name].id) # None
       THEN End(p, current_balance[p],
                Snapshot(credit_balance', credit_transactions,
                         organization_subscriptions, billing_history),
                TRUE, FALSE, NoResult)
       ELSE /\ pc' = [pc EXCEPT ![p] = "insert"]
            /\ UNCHANGED <<call, current_balance, started, hist>>

consume_credits_insert(p) ==
    /\ UNCHANGED membership
    /\ pc[p] = "insert" /\ call[p].op = "consume_credits"
    /\ LET c == call[p]
           cur == current_balance[p]
           new_balance == cur - credits_needed(c)
           row == ConsumeRow(c, new_balance)
       IN \E ok \in BOOLEAN :
               IF ok
               THEN /\ credit_transactions' = Append(credit_transactions, row)
                    /\ UNCHANGED <<credit_balance, organization_subscriptions,
                                   billing_history>>
                    /\ End(p, cur,
                           Snapshot(credit_balance, credit_transactions',
                                    organization_subscriptions, billing_history),
                           FALSE, FALSE,
                           [returned |-> "response", success |-> TRUE,
                            credits_consumed |-> credits_needed(c),
                            balance_after |-> new_balance])
               ELSE /\ UNCHANGED store
                    /\ End(p, cur, Now, TRUE, TRUE, NoResult)

(***************************************************************************)
(* Concurrent requests on the ledger.                                      *)
(***************************************************************************)
Next ==
    \E p \in Procs :
        \/ CallAddCredits(p)
        \/ add_credits_select(p)
        \/ add_credits_update(p)
        \/ add_credits_insert(p)
        \/ CallResetCredits(p)
        \/ reset_credits_select(p)
        \/ reset_credits_update(p)
        \/ reset_credits_insert(p)
        \/ CallConsumeCredits(p)
        \/ consume_credits_select(p)
        \/ consume_credits_update(p)
        \/ consume_credits_insert(p)

Spec == Init /\ [][Next]_vars

(***************************************************************************)
(* The same operations run from their first statement to their last with   *)
(* no other request in between, as functions on the store.  A result is    *)
(* the store the call leaves and whether it raised.                        *)
(***************************************************************************)
Outcome(db, raised) == [db |-> db, raised |-> raised]

\* _add_credits: select, update, validate, insert.
RunAddCredits(db, c) ==
    LET new_balance == db.bal + c.credits
        updated == [db EXCEPT !.bal = new_balance]
    IN IF get_validation_error(c.source, c.source_id) # None
       THEN Outcome(updated, TRUE)
       ELSE Outcome([updated EXCEPT !.txs = Append(@, AddRow(c, new_balance))],
                    FALSE)

\* reset_subscription_credits: select, early return, update, validate, insert.
RunResetCredits(db, c) ==
    IF AlreadyAtTarget(c.credits, db.bal)
    THEN Outcome(db, FALSE)
    ELSE LET updated == [db EXCEPT !.bal = c.credits] IN
         IF get_validation_error("subscription", c.subscription_id) # None
         THEN Outcome(updated, TRUE)
         ELSE Outcome([updated EXCEPT !.txs = Append(@, ResetRow(c, db.bal))],
                      FALSE)

\* consume_credits: event lookup, select, insufficient funds, update, insert.
RunConsumeCredits(db, c) ==
    IF c.event_name \notin DOMAIN CreditEvents
    THEN Outcome(db, TRUE)
    ELSE IF InsufficientBalance(db.bal, credits_needed(c))
         THEN Outcome(db, FALSE)
         ELSE LET new_balance == db.bal - credits_needed(c) IN
              Outcome([db EXCEPT !.bal = new_balance,
                                 !.txs = Append(@, ConsumeRow(c, new_balance))],
                      FALSE)

RunCall(db, c) ==
    IF c.op = "add_credits" THEN RunAddCredits(db, c)
    ELSE IF c.op = "reset_credits" THEN RunResetCredits(db, c)
    ELSE RunConsumeCredits(db, c)

(***************************************************************************)
(* Subscription rows and BillingService's subscription operations.         *)
(***************************************************************************)
\* _map_stripe_status: unknown statuses map to active.
map_stripe_status(stripe_status) ==
    CASE stripe_status = "trialing" -> "trial"
      [] stripe_status = "active" -> "active"
      [] stripe_status = "past_due" -> "past_due"
      [] stripe_status = "canceled" -> "cancelled"
      [] stripe_status = "unpaid" -> "expired"
      [] stripe_status = "incomplete" -> "incomplete"
      [] stripe_status = "incomplete_expired" -> "incomplete_expired"
      [] OTHER -> "active"

\* The id the store gives a new organization_subscriptions row.
SubscriptionRowId(subs) ==
    IF subs = {} THEN "sub1"
    ELSE IF Cardinality(subs) = 1 THEN "sub2" ELSE "sub3"

\* The mutation is a table without the constraint.
UniqueViolation_NotEnforced(subs) == FALSE

\* organization_id is unique in organization_subscriptions: an insert for
\* an organization that has a row fails.
UniqueViolation(subs) == subs # {}

\* get_organization_subscription: the first row of the organization, or None.
HasSubscription(db) == db.subs # {}

ExistingSubscription(db) == CHOOSE r \in db.subs : TRUE

\* The fields of OrganizationSubscriptionUpdate.  Keyword arguments that
\* are not fields of the model (stripe_subscription_id) are dropped by it.
UpdateFields ==
    {"subscription_plan_id", "status", "current_period_start",
     "current_period_end", "trial_start", "trial_end",
     "cancel_at_period_end", "cancelled_at"}

\* An update carries the fields that are not None.
ApplyUpdate(row, upd) ==
    [f \in DOMAIN row |->
        IF f \in DOMAIN upd /\ f \in UpdateFields THEN upd[f] ELSE row[f]]

\* update_organization_subscription: update the rows of the organization;
\* when a row was updated and the update names a plan, reset the credits to
\* that plan's included_credits.
update_organization_subscription(db, upd) ==
    IF db.subs = {}
    THEN Outcome(db, FALSE)
    ELSE LET updated == [db EXCEPT !.subs = {ApplyUpdate(r, upd) : r \in @}]
             row == ExistingSubscription(updated)
         IN IF "subscription_plan_id" \in DOMAIN upd
               /\ upd.subscription_plan_id \in PlanIds
            THEN RunResetCredits(updated,
                    ResetCall(SubscriptionPlans[upd.subscription_plan_id]
                                  .included_credits, row.id))
            ELSE Outcome(updated, FALSE)

\* The row create_organization_subscription inserts: status and trial
\* dates from the plan, the other columns at their defaults.
NewSubscriptionRow(subs, plan_id) ==
    LET plan == SubscriptionPlans[plan_id] IN
    [id |-> SubscriptionRowId(subs),
     subscription_plan_id |-> plan_id,
     stripe_subscription_id |-> None,
     status |-> IF plan.trial_period_days # 0 THEN "trial" ELSE "active",
     current_period_start |-> None,
     current_period_end |-> None,
     trial_start |-> IF plan.trial_period_days # 0 THEN "now" ELSE None,
     trial_end |-> IF plan.trial_period_days # 0
                   THEN "now+" \o ToString(plan.trial_period_days) \o "d"
                   ELSE None,
     cancel_at_period_end |-> FALSE,
     cancelled_at |-> None]

\* The mutation allocates whatever the plan includes, zero too.
HasIncludedCredits_Always(plan) == TRUE

\* if plan.included_credits > 0
HasIncludedCredits(plan) == plan.included_credits > 0

\* create_organization_subscription: insert the row (one row per
\* organization, enforced by the store), then allocate the initial credits.
create_organization_subscription(db, plan_id) ==
    LET plan == SubscriptionPlans[plan_id]
        row == NewSubscriptionRow(db.subs, plan_id)
    IN IF UniqueViolation(db.subs)
       THEN Outcome(db, TRUE)
       ELSE LET inserted == [db EXCEPT !.subs = @ \cup {row}] IN
            IF HasIncludedCredits(plan)
            THEN RunAddCredits(inserted,
                    add_subscription_credits(plan.included_credits, row.id))
            ELSE Outcome(inserted, FALSE)

\* create_billing_history: stripe_invoice_id is unique in billing_history.
create_billing_history(db, invoice_id, status) ==
    IF /\ invoice_id # None
       /\ \E i \in DOMAIN db.bills : db.bills[i].stripe_invoice_id = invoice_id
    THEN Outcome(db, TRUE)
    ELSE Outcome([db EXCEPT !.bills =
                     Append(@, [stripe_invoice_id |-> invoice_id,
                                status |-> status])],
                 FALSE)

(***************************************************************************)
(* Webhook handlers (billing/webhook_handler.py).  The event object is the *)
(* input; lookups at Stripe are part of it.                                *)
(***************************************************************************)
\* The optional fields of the event object that are present.
Present(obj, fields) == [f \in {g \in fields : obj[g] # None} |-> obj[f]]

\* int(credit_amount) on the metadata string.
ParseInt(str) ==
    CASE str = "1" -> 1
      [] str = "2" -> 2
      [] OTHER -> 0

handle_checkout_session_completed(db, session) ==
    IF session.organization_id = None
    THEN Outcome(db, FALSE)
    ELSE IF session.mode = "subscription"
         THEN Outcome(db, FALSE)
         ELSE IF session.mode = "payment"
                 /\ session.product_id # None
                 /\ session.credit_amount # None
                 /\ session.payment_intent # None
              THEN RunAddCredits(db,
                      add_purchased_credits(ParseInt(session.credit_amount)))
              ELSE Outcome(db, FALSE)

\* The mutation never sees a downgrade.
is_downgrade_Never(plan_credits, current_plan_credits) == FALSE

\* is_downgrade = plan.included_credits < current_plan_credits
is_downgrade(plan_credits, current_plan_credits) ==
    plan_credits < current_plan_credits

\* The Stripe details both branches of handle_subscription_created send:
\* stripe_subscription_id, status and the dates that are present.
SubscriptionDetails(sub) ==
    [stripe_subscription_id |-> sub.id,
     status |-> map_stripe_status(sub.status)]
    @@ Present(sub, {"current_period_start", "current_period_end",
                     "trial_start", "trial_end"})

\* The mutation sets cancel_at_period_end on every plan change.
PlanChangeUpdate_AlwaysGrace(existing, sub) ==
    [cancel_at_period_end |-> TRUE]
    @@ [subscription_plan_id |-> sub.price_id] @@ SubscriptionDetails(sub)

\* The update of the existing-subscription branch: the new plan, the
\* details, and cancel_at_period_end on a downgrade.
PlanChangeUpdate(existing, sub) ==
    LET plan == SubscriptionPlans[sub.price_id]
        current_plan_credits ==
            IF existing.subscription_plan_id \in PlanIds
            THEN SubscriptionPlans[existing.subscription_plan_id]
                     .included_credits
            ELSE 0
        update_data ==
            [subscription_plan_id |-> sub.price_id] @@ SubscriptionDetails(sub)
    IN IF is_downgrade(plan.included_credits, current_plan_credits)
       THEN [cancel_at_period_end |-> TRUE] @@ update_data
       ELSE update_data

handle_subscription_created(db, sub) ==
    IF sub.organization_id = None
    THEN Outcome(db, FALSE)
    ELSE IF sub.price_id \notin PlanIds
    THEN Outcome(db, FALSE)
    ELSE IF HasSubscription(db)
         THEN update_organization_subscription(db,
                 PlanChangeUpdate(ExistingSubscription(db), sub))
         ELSE LET created == create_organization_subscription(db,
                                                              sub.price_id)
              IN IF created.raised
                 THEN created
                 ELSE update_organization_subscription(created.db,
                         SubscriptionDetails(sub))

\* handle_subscription_updated: the plan of the payload's price is compared
\* with the current plan for the log lines only; the update that is sent
\* carries status, cancel_at_period_end, the period dates and cancelled_at,
\* and no subscription_plan_id.
handle_subscription_updated(db, sub) ==
    IF sub.organization_id = None
    THEN Outcome(db, FALSE)
    ELSE update_organization_subscription(db,
            [status |-> map_stripe_status(sub.status),
             cancel_at_period_end |-> sub.cancel_at_period_end]
            @@ Present(sub, {"current_period_start", "current_period_end"})
            @@ (IF sub.canceled_at # None
                THEN [cancelled_at |-> sub.canceled_at]
                ELSE << >>))

handle_invoice_payment_succeeded(db, invoice) ==
    IF invoice.organization_id = None
    THEN Outcome(db, FALSE)
    ELSE LET billed == create_billing_history(db, invoice.id, "paid") IN
         IF billed.raised
         THEN billed
         ELSE IF /\ invoice.subscription # None
                 /\ invoice.subscription \in PlanIds
                 /\ SubscriptionPlans[invoice.subscription].included_credits > 0
              THEN LET subscription_id ==
                          IF HasSubscription(billed.db)
                          THEN ExistingSubscription(billed.db).id
                          ELSE None
                   IN RunAddCredits(billed.db,
                         add_subscription_credits(
                            SubscriptionPlans[invoice.subscription]
                                .included_credits,
                            subscription_id))
              ELSE billed

\* The mutation also moves the organization to the plan without credits,
\* which resets its balance.
CancelledUpdate_ZeroesBalance(cancelled_at) ==
    [subscription_plan_id |-> "free", status |-> "cancelled",
     cancelled_at |-> cancelled_at]

\* The update handle_subscription_deleted sends.
CancelledUpdate(cancelled_at) ==
    [status |-> "cancelled", cancelled_at |-> cancelled_at]

\* handle_subscription_deleted: cancelled_at is the payload's canceled_at,
\* or the time the event was created when the payload has none.
handle_subscription_deleted(db, sub) ==
    IF sub.organization_id = None
    THEN Outcome(db, FALSE)
    ELSE update_organization_subscription(db,
            CancelledUpdate(IF sub.canceled_at # None
                            THEN sub.canceled_at ELSE sub.event_created))

\* The mutation also makes the organization pay for the failure with its
\* credits.
PastDueUpdate_DropsCredits == [subscription_plan_id |-> "free",
                               status |-> "past_due"]

\* The update handle_invoice_payment_failed sends.
PastDueUpdate == [status |-> "past_due"]

handle_invoice_payment_failed(db, invoice) ==
    IF invoice.organization_id = None
    THEN Outcome(db, FALSE)
    ELSE LET billed == create_billing_history(db, invoice.id, "failed") IN
         IF billed.raised
         THEN billed
         ELSE IF invoice.subscription # None
              THEN update_organization_subscription(billed.db, PastDueUpdate)
              ELSE billed

\* routes.reactivate_subscription: permission check, lookup of the
\* subscription and of its stripe_subscription_id, the call to Stripe, then
\* the update of the local row.  Every failure ends in an HTTP error.
reactivate_subscription(db, authorized, stripe_ok) ==
    IF ~authorized
    THEN Outcome(db, TRUE)
    ELSE IF \/ ~HasSubscription(db)
            \/ ExistingSubscription(db).stripe_subscription_id = None
         THEN Outcome(db, TRUE)
         ELSE IF ~stripe_ok
              THEN Outcome(db, TRUE)
              ELSE update_organization_subscription(db,
                      [cancel_at_period_end |-> FALSE])

(***************************************************************************)
(* The webhook endpoint: routes.stripe_webhook, handle_stripe_webhook and  *)
(* StripeService.construct_webhook_event.                                  *)
(***************************************************************************)
\* The Stripe-Signature header of a payload signed with a secret; << >> is
\* a request without the header.
Sign(secret, payload) == <<secret, payload>>

\* The mutation accepts every signature.
construct_webhook_event_NoVerification(payload, signature, webhook_secret) ==
    TRUE

\* construct_webhook_event returns the event when the signature is the one
\* the configured secret gives for the payload, and raises otherwise.
construct_webhook_event(payload, signature, webhook_secret) ==
    signature = Sign(webhook_secret, payload)

\* The mutation treats an event type without a handler as an error.
UnhandledEvent_Raises(db) == Outcome(db, TRUE)

\* The else branch of handle_stripe_webhook: the type is logged.
UnhandledEvent(db) == Outcome(db, FALSE)

\* The if/elif chain of handle_stripe_webhook over the event types
\* (payment_intent events, which only add billing history, are not among
\* the events delivered here).
RouteEvent(db, event) ==
    CASE event.op = "checkout.session.completed" ->
            handle_checkout_session_completed(db, event.object)
      [] event.op = "customer.subscription.created" ->
            handle_subscription_created(db, event.object)
      [] event.op = "customer.subscription.updated" ->
            handle_subscription_updated(db, event.object)
      [] event.op = "customer.subscription.deleted" ->
            handle_subscription_deleted(db, event.object)
      [] event.op = "invoice.payment_succeeded" ->
            handle_invoice_payment_succeeded(db, event.object)
      [] event.op = "invoice.payment_failed" ->
            handle_invoice_payment_failed(db, event.object)
      [] OTHER -> UnhandledEvent(db)

handle_stripe_webhook(db, webhook_secret, payload, signature) ==
    IF webhook_secret = None
    THEN Outcome(db, FALSE)
    ELSE IF ~construct_webhook_event(payload, signature, webhook_secret)
         THEN Outcome(db, TRUE)
         ELSE RouteEvent(db, payload)

\* The route rejects a request without a signature header and hands every
\* other request to handle_stripe_webhook.
stripe_webhook(db, webhook_secret, payload, signature) ==
    IF signature = << >>
    THEN Outcome(db, TRUE)
    ELSE handle_stripe_webhook(db, webhook_secret, payload, signature)

(***************************************************************************)
(* Event objects delivered by the gateway.                                 *)
(***************************************************************************)
CheckoutSessions ==
    {[organization_id |-> "org1", mode |-> "payment", product_id |-> "ref1",
      credit_amount |-> a, payment_intent |-> "pi1"] : a \in {None, "1"}}
    \cup {[organization_id |-> "org1", mode |-> "subscription",
           product_id |-> None, credit_amount |-> None,
           payment_intent |-> None],
          [organization_id |-> None, mode |-> "payment",
           product_id |-> "ref1", credit_amount |-> "1",
           payment_intent |-> "pi1"]}

StripeSubscription(org, price, status, period) ==
    [id |-> "stripe_sub1", organization_id |-> org, price_id |-> price,
     status |-> status,
     current_period_start |-> IF period THEN "period1_start" ELSE None,
     current_period_end |-> IF period THEN "period1_end" ELSE None,
     trial_start |-> IF status = "trialing" THEN "trial1_start" ELSE None,
     trial_end |-> IF status = "trialing" THEN "trial1_end" ELSE None]

SubscriptionObjects ==
    {StripeSubscription("org1", pl, st, pe) :
        pl \in PlanIds, st \in {"active", "trialing"}, pe \in BOOLEAN}
    \cup {StripeSubscription("org1", "unknown_price", "active", TRUE),
          StripeSubscription(None, "basic", "active", TRUE)}

\* The subscription object of customer.subscription.updated: a later state
\* of the same Stripe subscription, in its second period.
UpdatedSubscription(org, price, status, cancel) ==
    [StripeSubscription(org, price, status, FALSE)
        EXCEPT !.current_period_start = "period2_start",
               !.current_period_end = "period2_end"]
    @@ [cancel_at_period_end |-> cancel,
        canceled_at |-> IF status = "canceled" THEN "canceled1_at" ELSE None]

UpdatedSubscriptionObjects ==
    {UpdatedSubscription("org1", pl, st, c) :
        pl \in PlanIds, st \in {"active", "canceled"}, c \in BOOLEAN}
    \cup {UpdatedSubscription(None, "basic", "active", FALSE),
          StripeSubscription("org1", "basic", "active", FALSE)
          @@ [cancel_at_period_end |-> FALSE, canceled_at |-> None]}

\* subscription: the plan of the price of the invoice's subscription, None
\* for an invoice that is not tied to a subscription.
Invoices ==
    {[organization_id |-> "org1", id |-> i, subscription |-> s] :
        i \in {"in_1", "in_2"}, s \in PlanIds \cup {None}}
    \cup {[organization_id |-> None, id |-> "in_1", subscription |-> None]}

(***************************************************************************)
(* Requests handled one at a time: a whole call or handler per step.       *)
(***************************************************************************)
\* The store takes the state the request leaves and the request is recorded.
Record(c, out) ==
    /\ Running = {}
    /\ credit_balance' = out.db.bal
    /\ credit_transactions' = out.db.txs
    /\ organization_subscriptions' = out.db.subs
    /\ billing_history' = out.db.bills
    /\ hist' = Append(hist,
          [id |-> Len(hist) + 1, call |-> c, pre |-> Now, conc |-> {},
           current_balance |-> credit_balance, post |-> out.db,
           raised |-> out.raised, fault |-> FALSE, result |-> NoResult])
    /\ UNCHANGED <<pc, call, current_balance, started>>
    /\ UNCHANGED membership

Complete(c, out) == Len(hist) < MaxDeliveries /\ Record(c, out)

Event(type, object) == [op |-> type, object |-> object]

\* Requests to the webhook endpoint: events that make their handler write,
\* and one of a type that has no handler, each with the signature of the
\* configured secret, of another secret, of another payload, or none.
WebhookSecrets == {None, "whsec_1"}

DeliveredEvents ==
    {Event("checkout.session.completed",
           [organization_id |-> "org1", mode |-> "payment",
            product_id |-> "ref1", credit_amount |-> "1",
            payment_intent |-> "pi1"]),
     Event("customer.subscription.created",
           StripeSubscription("org1", "basic", "active", TRUE)),
     Event("invoice.payment_succeeded",
           [organization_id |-> "org1", id |-> "in_1",
            subscription |-> "basic"]),
     Event("customer.created", [organization_id |-> "org1"])}

Signatures(payload) ==
    {<< >>, Sign("whsec_1", payload), Sign("whsec_2", payload),
     Sign("whsec_1", Event("customer.created", [organization_id |-> None]))}

WebhookRequest(webhook_secret, payload, signature) ==
    [op |-> "stripe_webhook", webhook_secret |-> webhook_secret,
     payload |-> payload, signature |-> signature]

webhook_request ==
    \E secret \in WebhookSecrets, e \in DeliveredEvents :
        \E sig \in Signatures(e) :
            Complete(WebhookRequest(secret, e, sig),
                     stripe_webhook(Now, secret, e, sig))

add_credits ==
    \E c \in AddCalls : Complete(c, RunAddCredits(Now, c))

checkout_session_completed ==
    \E s \in CheckoutSessions :
        Complete(Event("checkout.session.completed", s),
                 handle_checkout_session_completed(Now, s))

customer_subscription_created ==
    \E s \in SubscriptionObjects :
        Complete(Event("customer.subscription.created", s),
                 handle_subscription_created(Now, s))

customer_subscription_updated ==
    \E s \in UpdatedSubscriptionObjects :
        Complete(Event("customer.subscription.updated", s),
                 handle_subscription_updated(Now, s))

invoice_payment_succeeded ==
    \E i \in Invoices :
        Complete(Event("invoice.payment_succeeded", i),
                 handle_invoice_payment_succeeded(Now, i))

SeqNext ==
    \/ webhook_request
    \/ add_credits
    \/ checkout_session_completed
    \/ customer_subscription_created
    \/ customer_subscription_updated
    \/ invoice_payment_succeeded

SeqSpec == Init /\ [][SeqNext]_vars

(***************************************************************************)
(* The life of a subscription after its creation: renewal and failed       *)
(* invoices, cancellation and reactivation, one request per step.          *)
(***************************************************************************)
Request(c, out) == Len(hist) < MaxRequests /\ Record(c, out)

LifecycleSubscriptions ==
    {StripeSubscription("org1", pl, "active", TRUE) : pl \in PlanIds}

\* The subscription object of customer.subscription.deleted, with the time
\* the event was created.
DeletedSubscriptions ==
    {StripeSubscription(org, "basic", "canceled", TRUE)
     @@ [canceled_at |-> at, event_created |-> "event1_created"] :
        org \in {"org1"}, at \in {"canceled1_at", None}}
    \cup {StripeSubscription(None, "basic", "canceled", TRUE)
          @@ [canceled_at |-> "canceled1_at",
              event_created |-> "event1_created"]}

LifecycleInvoices ==
    {[organization_id |-> "org1", id |-> i, subscription |-> s] :
        i \in {"in_1", "in_2"}, s \in {"basic", None}}
    \cup {[organization_id |-> "org1", id |-> "in_1", subscription |-> "free"],
          [organization_id |-> None, id |-> "in_1", subscription |-> None]}

subscription_created ==
    \E s \in LifecycleSubscriptions :
        Request(Event("customer.subscription.created", s),
                handle_subscription_created(Now, s))

subscription_deleted ==
    \E s \in DeletedSubscriptions :
        Request(Event("customer.subscription.deleted", s),
                handle_subscription_deleted(Now, s))

invoice_succeeded ==
    \E i \in LifecycleInvoices :
        Request(Event("invoice.payment_succeeded", i),
                handle_invoice_payment_succeeded(Now, i))

invoice_failed ==
    \E i \in LifecycleInvoices :
        Request(Event("invoice.payment_failed", i),
                handle_invoice_payment_failed(Now, i))

reactivate ==
    \E authorized \in BOOLEAN :
        Request([op |-> "reactivate_subscription",
                 authorized |-> authorized],
                reactivate_subscription(Now, authorized, TRUE))

LifecycleNext ==
    \/ subscription_created
    \/ subscription_deleted
    \/ invoice_succeeded
    \/ invoice_failed
    \/ reactivate

LifecycleSpec == Init /\ [][LifecycleNext]_vars

(***************************************************************************)
(* The webhook endpoint step by step: the route answers and leaves the     *)
(* processing to a background task, which runs after the response.         *)
(***************************************************************************)
\* The mutation awaits the processing and reports its failure.
Acknowledgment_AfterProcessing(db, webhook_secret, payload, signature) ==
    IF signature = << >>
       \/ handle_stripe_webhook(db, webhook_secret, payload, signature).raised
    THEN [returned |-> "error", status_code |-> 400]
    ELSE [returned |-> "response", status_code |-> 200, status |-> "success"]

\* routes.stripe_webhook: 400 without the signature header, else the task
\* is added to background_tasks and the success response is returned.
Acknowledgment(db, webhook_secret, payload, signature) ==
    IF signature = << >>
    THEN [returned |-> "error", status_code |-> 400]
    ELSE [returned |-> "response", status_code |-> 200, status |-> "success"]

Acknowledged == {i \in DOMAIN hist : hist[i].call.op = "stripe_webhook"}

\* The route: the response is recorded; with a signature header the slot
\* holds the task until it runs.
stripe_webhook_route(p) ==
    /\ UNCHANGED membership
    /\ \E secret \in WebhookSecrets, e \in DeliveredEvents :
           \E sig \in Signatures(e) :
               /\ pc[p] = "idle"
               /\ \A q \in Procs : q < p => pc[q] # "idle"
               /\ Cardinality(Acknowledged) < MaxDeliveries
               /\ hist' = Append(hist,
                     [id |-> Len(hist) + 1,
                      call |-> WebhookRequest(secret, e, sig),
                      pre |-> Now, conc |-> {}, current_balance |-> 0,
                      post |-> Now, raised |-> (sig = << >>), fault |-> FALSE,
                      result |-> Acknowledgment(Now, secret, e, sig)])
               /\ IF sig = << >>
                  THEN UNCHANGED <<pc, call, started>>
                  ELSE /\ pc' = [pc EXCEPT ![p] = "background"]
                       /\ call' = [call EXCEPT ![p] =
                                      WebhookRequest(secret, e, sig)]
                       /\ started' = [started EXCEPT ![p] =
                                         [id |-> Len(hist) + 1, pre |-> Now,
                                          conc |-> {}]]
               /\ UNCHANGED <<store, current_balance>>

\* The background task: handle_stripe_webhook(payload, signature).
background_task(p) ==
    /\ UNCHANGED membership
    /\ pc[p] = "background"
    /\ LET c == call[p]
           out == handle_stripe_webhook(Now, c.webhook_secret, c.payload,
                                        c.signature)
       IN /\ credit_balance' = out.db.bal
          /\ credit_transactions' = out.db.txs
          /\ organization_subscriptions' = out.db.subs
          /\ billing_history' = out.db.bills
          /\ hist' = Append(hist,
                [id |-> Len(hist) + 1,
                 call |-> [op |-> "handle_stripe_webhook",
                           request |-> started[p].id],
                 pre |-> Now, conc |-> {}, current_balance |-> 0,
                 post |-> out.db, raised |-> out.raised, fault |-> FALSE,
                 result |-> NoResult])
    /\ pc' = [pc EXCEPT ![p] = "idle"]
    /\ call' = [call EXCEPT ![p] = NoCall]
    /\ started' = [started EXCEPT ![p] = NoStart]
    /\ UNCHANGED current_balance

WebhookNext ==
    \E p \in Procs :
        \/ stripe_webhook_route(p)
        \/ background_task(p)

WebhookSpec == Init /\ [][WebhookNext]_vars

(***************************************************************************)
(* Concurrent creation of the subscription row: deliveries of              *)
(* customer.subscription.created and calls of                              *)
(* create_organization_subscription, statement by statement on             *)
(* organization_subscriptions.  A ledger call made on the way is one step  *)
(* here; its own statements are interleaved in Spec.  The request keeps    *)
(* its locals (the update it will send, the id of the row it inserted) in  *)
(* call[p].                                                                *)
(***************************************************************************)
CreateSubscriptionCall(plan_id) ==
    [op |-> "create_organization_subscription",
     object |-> [organization_id |-> "org1", price_id |-> plan_id]]

ConcurrentSubscriptionCalls ==
    {Event("customer.subscription.created",
           StripeSubscription("org1", pl, "active", TRUE)) :
        pl \in PlanIds \cup {"unknown_price"}}
    \cup {CreateSubscriptionCall(pl) : pl \in PlanIds}

IsSubscriptionCall(c) ==
    c.op \in {"customer.subscription.created",
              "create_organization_subscription"}

IsDelivery(c) == c.op = "customer.subscription.created"

CallSubscription(p) ==
    /\ UNCHANGED membership
    /\ \E c \in ConcurrentSubscriptionCalls : Begin(p, c)

\* The request of slot p ends.
Finish(p, post, raised) ==
    /\ hist' = Append(hist,
          [id |-> started[p].id,
           call |-> [op |-> call[p].op, object |-> call[p].object],
           pre |-> started[p].pre, conc |-> started[p].conc,
           current_balance |-> 0, post |-> post, raised |-> raised,
           fault |-> FALSE, result |-> NoResult])
    /\ pc' = [pc EXCEPT ![p] = "idle"]
    /\ call' = [call EXCEPT ![p] = NoCall]
    /\ started' = [started EXCEPT ![p] = NoStart]
    /\ UNCHANGED current_balance

\* The plan lookup and, in the handler, get_organization_subscription:
\* what the request finds decides between the update and the insert.
subscription_select(p) ==
    /\ UNCHANGED membership
    /\ pc[p] = "select" /\ IsSubscriptionCall(call[p])
    /\ UNCHANGED store
    /\ LET c == call[p]
           sub == c.object
       IN IF sub.price_id \notin PlanIds
          THEN \* the handler returns: no plan for the price
               Finish(p, Now, FALSE)
          ELSE /\ IF IsDelivery(c) /\ organization_subscriptions # {}
                  THEN /\ pc' = [pc EXCEPT ![p] = "update"]
                       /\ call' = [call EXCEPT ![p] =
                             c @@ [update_data |->
                                      PlanChangeUpdate(
                                         CHOOSE r \in
                                            organization_subscriptions : TRUE,
                                         sub),
                                   subscription_id |-> None]]
                  ELSE /\ pc' = [pc EXCEPT ![p] = "insert"]
                       /\ call' = [call EXCEPT ![p] =
                             c @@ [update_data |->
                                      IF IsDelivery(c)
                                      THEN SubscriptionDetails(sub)
                                      ELSE << >>,
                                   subscription_id |-> None]]
               /\ UNCHANGED <<current_balance, started, hist>>

\* create_organization_subscription: the insert, refused by the store when
\* the organization has a row.
subscription_insert(p) ==
    /\ UNCHANGED membership
    /\ pc[p] = "insert" /\ IsSubscriptionCall(call[p])
    /\ LET c == call[p]
           plan == SubscriptionPlans[c.object.price_id]
           row == NewSubscriptionRow(organization_subscriptions,
                                     c.object.price_id)
       IN IF UniqueViolation(organization_subscriptions)
          THEN /\ UNCHANGED store
               /\ Finish(p, Now, TRUE)
          ELSE /\ organization_subscriptions' =
                     organization_subscriptions \cup {row}
               /\ UNCHANGED <<credit_balance, credit_transactions,
                              billing_history>>
               /\ IF HasIncludedCredits(plan) \/ IsDelivery(c)
                  THEN /\ pc' = [pc EXCEPT ![p] =
                                    IF HasIncludedCredits(plan)
                                    THEN "allocate" ELSE "update"]
                       /\ call' = [call EXCEPT ![p].subscription_id = row.id]
                       /\ UNCHANGED <<current_balance, started, hist>>
                  ELSE Finish(p, Snapshot(credit_balance, credit_transactions,
                                          organization_subscriptions',
                                          billing_history),
                              FALSE)

\* create_organization_subscription: add_subscription_credits for the row.
subscription_allocate(p) ==
    /\ UNCHANGED membership
    /\ pc[p] = "allocate" /\ IsSubscriptionCall(call[p])
    /\ LET c == call[p]
           plan == SubscriptionPlans[c.object.price_id]
           out == RunAddCredits(Now,
                     add_subscription_credits(plan.included_credits,
                                              c.subscription_id))
       IN /\ credit_balance' = out.db.bal
          /\ credit_transactions' = out.db.txs
          /\ UNCHANGED <<organization_subscriptions, billing_history>>
          /\ IF out.raised \/ ~IsDelivery(c)
             THEN Finish(p, out.db, out.raised)
             ELSE /\ pc' = [pc EXCEPT ![p] = "update"]
                  /\ UNCHANGED <<call, current_balance, started, hist>>

\* update_organization_subscription: the update statement on the rows of
\* the organization.
subscription_update(p) ==
    /\ UNCHANGED membership
    /\ pc[p] = "update" /\ IsSubscriptionCall(call[p])
    /\ LET upd == call[p].update_data IN
          /\ organization_subscriptions' =
                {ApplyUpdate(r, upd) : r \in organization_subscriptions}
          /\ UNCHANGED <<credit_balance, credit_transactions, billing_history>>
          /\ IF /\ organization_subscriptions # {}
                /\ "subscription_plan_id" \in DOMAIN upd
             THEN /\ pc' = [pc EXCEPT ![p] = "reset"]
                  /\ UNCHANGED <<call, current_balance, started, hist>>
             ELSE Finish(p, Snapshot(credit_balance, credit_transactions,
                                     organization_subscriptions',
                                     billing_history),
                         FALSE)

\* update_organization_subscription: reset_subscription_credits to the new
\* plan's included_credits.
subscription_reset(p) ==
    /\ UNCHANGED membership
    /\ pc[p] = "reset" /\ IsSubscriptionCall(call[p])
    /\ LET upd == call[p].update_data
           row == CHOOSE r \in organization_subscriptions : TRUE
           out == RunResetCredits(Now,
                     ResetCall(SubscriptionPlans[upd.subscription_plan_id]
                                   .included_credits, row.id))
       IN /\ credit_balance' = out.db.bal
          /\ credit_transactions' = out.db.txs
          /\ UNCHANGED <<organization_subscriptions, billing_history>>
          /\ Finish(p, out.db, out.raised)

SubNext ==
    \E p \in Procs :
        \/ CallSubscription(p)
        \/ subscription_select(p)
        \/ subscription_insert(p)
        \/ subscription_allocate(p)
        \/ subscription_update(p)
        \/ subscription_reset(p)

SubSpec == Init /\ [][SubNext]_vars

(***************************************************************************)
(* Invitations: OrganizationService.create_invitation and                  *)
(* process_invitation on the invitations and user_roles tables, one call   *)
(* per step, and the passing of time.                                      *)
(***************************************************************************)
InvitationStatus == {"pending", "accepted", "expired", "cancelled"}

\* expires_at = now + timedelta(days=7)
InvitationDays == 7

Emails == {"ann@example.com", "bob@example.com"}

UserIds == {"u1", "u2"}

Members(invs, roles, time) ==
    [invitations |-> invs, user_roles |-> roles, now |-> time]

MembersNow == Members(invitations, user_roles, now)

Reply(db, invitation, error) ==
    [db |-> db, invitation |-> invitation, error |-> error]

\* update({"status": "cancelled"}).eq("email", ..).eq("organization_id", ..)
\* .eq("status", "pending")
CancelPending(rows, email, organization_id) ==
    [k \in DOMAIN rows |->
        IF /\ rows[k].email = email
           /\ rows[k].organization_id = organization_id
           /\ rows[k].status = "pending"
        THEN [rows[k] EXCEPT !.status = "cancelled"]
        ELSE rows[k]]

\* secrets.token_urlsafe(32): a token no other row has.
NewToken(rows) == "token" \o ToString(Len(rows) + 1)

UserRole(user_id, organization_id) ==
    [user_id |-> user_id, role |-> "regular_user",
     organization_id |-> organization_id]

IsMember(db, user_id, organization_id) ==
    \E k \in DOMAIN db.user_roles :
        /\ db.user_roles[k].user_id = user_id
        /\ db.user_roles[k].organization_id = organization_id

\* create_invitation for an email: existing_user is the user the auth
\* service finds for it, or None.  An existing user is added at once and no
\* row is inserted; otherwise the pending invitations of the email are
\* cancelled and a pending row with a new token is inserted.
create_invitation(db, email, organization_id, existing_user) ==
    LET cancelled == CancelPending(db.invitations, email, organization_id)
        db1 == [db EXCEPT !.invitations = cancelled]
    IN IF existing_user # None
       THEN IF IsMember(db1, existing_user, organization_id)
            THEN Reply(db1, None, "USER_ALREADY_MEMBER")
            ELSE Reply([db1 EXCEPT !.user_roles =
                           Append(@, UserRole(existing_user,
                                              organization_id))],
                       [email |-> email, status |-> "accepted"], None)
       ELSE LET row == [email |-> email,
                        organization_id |-> organization_id,
                        token |-> NewToken(db.invitations),
                        status |-> "pending",
                        expires_at |-> db.now + InvitationDays]
            IN Reply([db1 EXCEPT !.invitations = Append(@, row)], row, None)

\* The row a token selects.
TokenRows(db, token) ==
    {k \in DOMAIN db.invitations : db.invitations[k].token = token}

\* process_invitation(token, user_id)
process_invitation(db, token, user_id) ==
    IF TokenRows(db, token) = {}
    THEN Reply(db, None, "Invitation not found")
    ELSE LET k == CHOOSE x \in TokenRows(db, token) : TRUE
             invitation_dict == db.invitations[k]
         IN IF invitation_dict.status = "accepted"
            THEN Reply(db, None, "Invitation already accepted")
            ELSE IF db.now > invitation_dict.expires_at
            THEN Reply([db EXCEPT !.invitations[k].status = "expired"],
                       None, "Invitation has expired")
            ELSE Reply([db EXCEPT
                          !.user_roles =
                             Append(@, UserRole(user_id,
                                        invitation_dict.organization_id)),
                          !.invitations[k].status = "accepted"],
                       [invitation_dict EXCEPT !.status = "accepted"], None)

\* The tokens a request can carry: the ones sent out and one never issued.
Tokens == {invitations[k].token : k \in DOMAIN invitations} \cup {"token0"}

Store(db) ==
    /\ invitations' = db.invitations
    /\ user_roles' = db.user_roles
    /\ now' = db.now

\* A call of the invitation service, recorded with the tables before and
\* after it.
Serve(c, out) ==
    /\ Len(hist) < MaxInvitationCalls
    /\ Store(out.db)
    /\ hist' = Append(hist,
          [id |-> Len(hist) + 1, call |-> c, pre |-> MembersNow,
           post |-> out.db, raised |-> FALSE, result |-> out])
    /\ UNCHANGED <<store, pc, call, current_balance, started>>

invite_member ==
    \E email \in Emails, existing_user \in UserIds \cup {None} :
        Serve([op |-> "create_invitation", email |-> email,
               existing_user |-> existing_user],
              create_invitation(MembersNow, email, "org1", existing_user))

accept_invitation ==
    \E token \in Tokens, user_id \in UserIds :
        Serve([op |-> "process_invitation", token |-> token,
               user_id |-> user_id],
              process_invitation(MembersNow, token, user_id))

\* Time passes up to the last day an invitation made today is valid, or
\* one day beyond it.
day_passes ==
    \E days \in {InvitationDays, InvitationDays + 1} :
    /\ now + days <= MaxDays
    /\ now' = now + days
    /\ UNCHANGED <<store, pc, call, current_balance, started, hist,
                   invitations, user_roles>>

InviteNext ==
    \/ invite_member
    \/ accept_invitation
    \/ day_passes

InviteSpec == Init /\ [][InviteNext]_vars

(***************************************************************************)
(* Vocabulary of the properties, over the record of completed calls.       *)
(***************************************************************************)
\* No other request was in flight at any time during the call.
Alone(e) == e.conc = {}

\* The rows the ledger gained between the start and the end of the call.
NewRows(e) == SubSeq(e.post.txs, Len(e.pre.txs) + 1, Len(e.post.txs))

\* The pairing table of the data model.
PairingTable(source, source_id) ==
    /\ source \in {"subscription", "purchase", "event_consumption", "refund"}
          => source_id # None
    /\ source \in {"expiry", "admin_adjustment"} => source_id = None

Succeeded(e) ==
    /\ ~e.raised
    /\ e.result.returned = "response"
    /\ e.result.success

IsConsume(e) ==
    e.call.op = "consume_credits" /\ e.call.event_name \in DOMAIN CreditEvents

Range(seq) == {seq[i] : i \in DOMAIN seq}

Bag(seq) ==
    [r \in Range(seq) |-> Cardinality({i \in DOMAIN seq : seq[i] = r})]

SameLedger(a, b) == a.bal = b.bal /\ Bag(a.txs) = Bag(b.txs)

Serial(db, c1, c2) == RunCall(RunCall(db, c1).db, c2).db

WebhookEvents ==
    {"checkout.session.completed", "customer.subscription.created",
     "invoice.payment_succeeded"}

(***************************************************************************)
(* C1.  Balance consistency: whenever no request is in flight and every    *)
(* call so far ran on its own and met no failure of the store, the         *)
(* organization's credit_balance equals the sum of the amounts of its      *)
(* credit_transactions rows.                                               *)
(***************************************************************************)
C1_BalanceConsistency ==
    (/\ Running = {}
     /\ \A i \in DOMAIN hist : Alone(hist[i]) /\ ~hist[i].fault)
    => credit_balance = SumAmounts(credit_transactions)

(***************************************************************************)
(* C2.  Concurrent consumption: two consume_credits calls that overlap     *)
(* only each other, both issued while the balance equals the cost of one   *)
(* of them, end with exactly one success.                                  *)
(***************************************************************************)
C2_ExactlyOneConsumeSucceeds ==
    \A i, j \in DOMAIN hist :
        (/\ i < j
         /\ IsConsume(hist[i]) /\ IsConsume(hist[j])
         /\ hist[i].conc = {hist[j].id} /\ hist[j].conc = {hist[i].id}
         /\ ~hist[i].fault /\ ~hist[j].fault
         /\ credits_needed(hist[i].call) = credits_needed(hist[j].call)
         /\ hist[i].pre.bal = credits_needed(hist[i].call)
         /\ hist[j].pre.bal = credits_needed(hist[j].call))
        => Cardinality({k \in {i, j} : Succeeded(hist[k])}) = 1

(***************************************************************************)
(* C3.  Serializability: two ledger calls that overlap only each other and *)
(* both return normally leave the balance and the recorded transactions    *)
(* that one of the two serial orders of the same calls leaves from the     *)
(* state the earlier call started in.                                      *)
(***************************************************************************)
C3_Serializable ==
    \A i, j \in DOMAIN hist :
        (/\ i < j
         /\ hist[i].conc = {hist[j].id} /\ hist[j].conc = {hist[i].id}
         /\ ~hist[i].raised /\ ~hist[j].raised)
        => LET first == IF hist[i].id < hist[j].id THEN hist[i] ELSE hist[j]
               final == hist[j].post
           IN \/ SameLedger(final,
                            Serial(first.pre, hist[i].call, hist[j].call))
              \/ SameLedger(final,
                            Serial(first.pre, hist[j].call, hist[i].call))

(***************************************************************************)
(* C4.  Exactly-once allocation for the first period: for an organization  *)
(* without a subscription, customer.subscription.created for a plan and    *)
(* the invoice.payment_succeeded of that subscription, delivered one after *)
(* the other in either order, raise the balance by the plan's              *)
(* included_credits in total.                                              *)
(***************************************************************************)
FirstPeriodPair(a, b) ==
    /\ a.call.op = "customer.subscription.created"
    /\ b.call.op = "invoice.payment_succeeded"
    /\ a.call.object.organization_id # None
    /\ b.call.object.organization_id # None
    /\ a.call.object.price_id \in PlanIds
    /\ b.call.object.subscription = a.call.object.price_id

C4_ExactlyOncePerPeriod ==
    \A i \in DOMAIN hist :
        (/\ i + 1 \in DOMAIN hist
         /\ hist[i].pre.subs = {}
         /\ \/ FirstPeriodPair(hist[i], hist[i + 1])
            \/ FirstPeriodPair(hist[i + 1], hist[i]))
        => LET created == IF hist[i].call.op = "customer.subscription.created"
                          THEN hist[i] ELSE hist[i + 1]
           IN hist[i + 1].post.bal - hist[i].pre.bal =
                 SubscriptionPlans[created.call.object.price_id].included_credits

(***************************************************************************)
(* C5.  Replay of customer.subscription.created: delivered twice in a row  *)
(* to an organization that had no subscription row, the second delivery    *)
(* leaves the subscription as the first left it, adds no                   *)
(* credit_transactions row and does not change credit_balance.             *)
(***************************************************************************)
C5_SubscriptionCreatedReplay ==
    \A i \in DOMAIN hist :
        (/\ i + 1 \in DOMAIN hist
         /\ hist[i].call.op = "customer.subscription.created"
         /\ hist[i + 1].call = hist[i].call
         /\ hist[i].call.object.organization_id # None
         /\ hist[i].call.object.price_id \in PlanIds
         /\ hist[i].pre.subs = {})
        => /\ hist[i + 1].post.subs = hist[i].post.subs
           /\ hist[i + 1].post.txs = hist[i + 1].pre.txs
           /\ hist[i + 1].post.bal = hist[i + 1].pre.bal

(***************************************************************************)
(* C6.  Handler idempotency: a webhook handler run a second time with the  *)
(* same event leaves credit_balance at its value after the first run.      *)
(***************************************************************************)
C6_HandlerIdempotent ==
    \A i \in DOMAIN hist :
        (/\ i + 1 \in DOMAIN hist
         /\ hist[i].call.op \in WebhookEvents
         /\ hist[i + 1].call = hist[i].call)
        => hist[i + 1].post.bal = hist[i].post.bal

(***************************************************************************)
(* C7.  Idempotent reset: of two reset_subscription_credits calls with the *)
(* same target, one right after the other and nothing else in between,     *)
(* the second returns None and writes neither balance nor transaction, and *)
(* the two record at most one transaction in total.                        *)
(***************************************************************************)
ResetTwice(i) ==
    /\ i + 1 \in DOMAIN hist
    /\ hist[i].call.op = "reset_credits"
    /\ hist[i + 1].call = hist[i].call
    /\ Alone(hist[i]) /\ Alone(hist[i + 1])

C7_IdempotentReset ==
    \A i \in DOMAIN hist :
        ResetTwice(i)
        => /\ ~hist[i + 1].raised
           /\ hist[i + 1].result.returned = "None"
           /\ hist[i + 1].post = hist[i + 1].pre
           /\ Len(hist[i + 1].post.txs) - Len(hist[i].pre.txs) <= 1

C7_Witness ==
    \E i \in DOMAIN hist :
        /\ ResetTwice(i)
        /\ Len(NewRows(hist[i])) = 1
        /\ hist[i + 1].post.bal = hist[i].call.credits

(***************************************************************************)
(* C8.  Insufficient funds is a result: a consume_credits call that finds  *)
(* a balance below credit_cost * quantity returns success=false,           *)
(* credits_consumed=0 and balance_after = that balance without raising,    *)
(* and writes nothing.                                                     *)
(***************************************************************************)
FoundInsufficient(e) ==
    /\ IsConsume(e)
    /\ e.current_balance <
          CreditEvents[e.call.event_name].credit_cost * e.call.quantity

C8_InsufficientFundsIsAResult ==
    \A i \in DOMAIN hist :
        FoundInsufficient(hist[i])
        => /\ ~hist[i].raised
           /\ hist[i].result =
                 [returned |-> "response", success |-> FALSE,
                  credits_consumed |-> 0,
                  balance_after |-> hist[i].current_balance]
           /\ Alone(hist[i]) =>
                 /\ hist[i].post = hist[i].pre
                 /\ hist[i].current_balance = hist[i].pre.bal

C8_Witness ==
    \E i \in DOMAIN hist :
        /\ FoundInsufficient(hist[i])
        /\ Alone(hist[i])
        /\ hist[i].pre.bal > 0

(***************************************************************************)
(* C9.  Source/source_id pairing: an add_credits call whose pairing breaks *)
(* the table raises and records no row, one whose pairing satisfies the    *)
(* table returns normally and records its row, and every row of            *)
(* credit_transactions satisfies the table.                                *)
(***************************************************************************)
C9_PairingEnforced ==
    /\ \A i \in DOMAIN hist :
          hist[i].call.op = "add_credits"
          => LET e == hist[i]
                 c == e.call
             IN IF PairingTable(c.source, c.source_id)
                THEN /\ ~e.raised
                     /\ Len(NewRows(e)) = 1
                     /\ NewRows(e)[1].source = c.source
                     /\ NewRows(e)[1].source_id = c.source_id
                     /\ NewRows(e)[1].amount = c.credits
                ELSE /\ e.raised
                     /\ e.post.txs = e.pre.txs
    /\ \A k \in DOMAIN credit_transactions :
          PairingTable(credit_transactions[k].source,
                       credit_transactions[k].source_id)

C9_Witness ==
    \E i, j \in DOMAIN hist :
        /\ hist[i].call.op = "add_credits" /\ hist[j].call.op = "add_credits"
        /\ hist[i].call.source = "expiry" /\ hist[i].call.source_id # None
        /\ hist[i].raised
        /\ hist[j].call.source = "purchase" /\ hist[j].call.source_id # None
        /\ ~hist[j].raised

(***************************************************************************)
(* C10.  Failure atomicity: a ledger call that ran on its own and ended in *)
(* an error changed credit_balance by exactly the amounts of the rows it   *)
(* recorded.                                                               *)
(***************************************************************************)
C10_FailureAtomicity ==
    \A i \in DOMAIN hist :
        (hist[i].raised /\ Alone(hist[i]))
        => hist[i].post.bal - hist[i].pre.bal = SumAmounts(NewRows(hist[i]))

(***************************************************************************)
(* C11.  Downgrade grace period: customer.subscription.created for plan B  *)
(* delivered to an organization whose subscription is on plan A, with      *)
(* B.included_credits < A.included_credits, leaves for any prior balance   *)
(* one subscription row, on plan B with cancel_at_period_end = true, and   *)
(* credit_balance exactly B.included_credits, which is not negative.       *)
(***************************************************************************)
PlanOf(db) == (CHOOSE r \in db.subs : TRUE).subscription_plan_id

DowngradeDelivery(e) ==
    /\ e.call.op = "customer.subscription.created"
    /\ e.call.object.organization_id # None
    /\ e.call.object.price_id \in PlanIds
    /\ e.pre.subs # {}
    /\ SubscriptionPlans[e.call.object.price_id].included_credits <
          SubscriptionPlans[PlanOf(e.pre)].included_credits

C11_DowngradeGracePeriod ==
    \A i \in DOMAIN hist :
        DowngradeDelivery(hist[i])
        => LET e == hist[i]
               B == e.call.object.price_id
           IN /\ ~e.raised
              /\ Cardinality(e.post.subs) = 1
              /\ \A r \in e.post.subs :
                    /\ r.subscription_plan_id = B
                    /\ r.cancel_at_period_end = TRUE
              /\ e.post.bal = SubscriptionPlans[B].included_credits
              /\ e.post.bal >= 0

C11_Witness ==
    \E i \in DOMAIN hist :
        /\ DowngradeDelivery(hist[i])
        /\ hist[i].pre.bal >
              SubscriptionPlans[PlanOf(hist[i].pre)].included_credits
        /\ Len(NewRows(hist[i])) = 1
        /\ NewRows(hist[i])[1].amount < 0

(***************************************************************************)
(* C12.  Subscription updated event: customer.subscription.updated for an  *)
(* organization with a subscription row sets the row's status and period   *)
(* fields from the payload, and when the payload's price belongs to a plan *)
(* other than the row's plan, the row's plan becomes that plan and         *)
(* credit_balance becomes that plan's included_credits.                    *)
(***************************************************************************)
UpdatedDelivery(e) ==
    /\ e.call.op = "customer.subscription.updated"
    /\ e.call.object.organization_id # None
    /\ e.pre.subs # {}

PlanChangeDelivery(e) ==
    /\ UpdatedDelivery(e)
    /\ e.call.object.price_id \in PlanIds
    /\ e.call.object.price_id # PlanOf(e.pre)

SyncedFromPayload(r, sub) ==
    /\ r.status = map_stripe_status(sub.status)
    /\ sub.current_period_start # None
          => r.current_period_start = sub.current_period_start
    /\ sub.current_period_end # None
          => r.current_period_end = sub.current_period_end

C12_SubscriptionUpdated ==
    \A i \in DOMAIN hist :
        UpdatedDelivery(hist[i])
        => LET e == hist[i]
               sub == e.call.object
           IN /\ ~e.raised
              /\ \A r \in e.post.subs : SyncedFromPayload(r, sub)
              /\ PlanChangeDelivery(e)
                    => /\ PlanOf(e.post) = sub.price_id
                       /\ e.post.bal =
                             SubscriptionPlans[sub.price_id].included_credits

(***************************************************************************)
(* C13.  One-time credit purchase: checkout.session.completed in payment   *)
(* mode, with organization_id, product_id and credit_amount in its         *)
(* metadata and a payment_intent, raises credit_balance by credit_amount   *)
(* and records one transaction with source purchase and that amount.       *)
(***************************************************************************)
CreditPurchase(e) ==
    /\ e.call.op = "checkout.session.completed"
    /\ e.call.object.mode = "payment"
    /\ e.call.object.organization_id # None
    /\ e.call.object.product_id # None
    /\ e.call.object.credit_amount # None
    /\ e.call.object.payment_intent # None

C13_CreditPurchaseRecorded ==
    \A i \in DOMAIN hist :
        CreditPurchase(hist[i])
        => LET e == hist[i]
               amount == ParseInt(e.call.object.credit_amount)
           IN /\ e.post.bal = e.pre.bal + amount
              /\ Len(NewRows(e)) = 1
              /\ NewRows(e)[1].source = "purchase"
              /\ NewRows(e)[1].amount = amount

(***************************************************************************)
(* C14.  Ordering tolerance: for an organization with no subscription row, *)
(* customer.subscription.updated and customer.subscription.created for the *)
(* same external subscription, delivered one after the other, both         *)
(* complete without error and leave the subscription row and the           *)
(* credit_balance that delivering them in the opposite order leaves.       *)
(***************************************************************************)
CreatedAndUpdated(a, b) ==
    /\ a.call.op = "customer.subscription.created"
    /\ b.call.op = "customer.subscription.updated"
    /\ a.call.object.organization_id # None
    /\ b.call.object.organization_id # None
    /\ a.call.object.id = b.call.object.id
    /\ a.call.object.price_id \in PlanIds

OppositeOrder(db, first, second) ==
    RouteEvent(RouteEvent(db, second).db, first)

C14_OrderingTolerance ==
    \A i \in DOMAIN hist :
        (/\ i + 1 \in DOMAIN hist
         /\ hist[i].pre.subs = {}
         /\ \/ CreatedAndUpdated(hist[i], hist[i + 1])
            \/ CreatedAndUpdated(hist[i + 1], hist[i]))
        => LET other == OppositeOrder(hist[i].pre, hist[i].call,
                                      hist[i + 1].call)
           IN /\ ~hist[i].raised /\ ~hist[i + 1].raised
              /\ hist[i + 1].post.subs = other.db.subs
              /\ hist[i + 1].post.bal = other.db.bal

(***************************************************************************)
(* C15.  Signature verification precedes processing: a request to the      *)
(* webhook endpoint whose signature is not the one the configured secret   *)
(* gives for its payload, or that arrives while no secret is configured,   *)
(* writes nothing to the balance, the transactions, the subscriptions or   *)
(* the billing history; and a request that wrote something was verified.   *)
(***************************************************************************)
IsWebhookRequest(e) == e.call.op = "stripe_webhook"

Verified(e) ==
    /\ e.call.webhook_secret # None
    /\ e.call.signature = <<e.call.webhook_secret, e.call.payload>>

C15_VerificationPrecedesProcessing ==
    \A i \in DOMAIN hist :
        IsWebhookRequest(hist[i])
        => /\ ~Verified(hist[i]) => hist[i].post = hist[i].pre
           /\ hist[i].post # hist[i].pre => Verified(hist[i])

C15_Witness ==
    \E i, j \in DOMAIN hist :
        /\ IsWebhookRequest(hist[i]) /\ IsWebhookRequest(hist[j])
        /\ hist[i].call.payload = hist[j].call.payload
        /\ hist[i].call.webhook_secret # None
        /\ hist[i].call.signature # << >>
        /\ ~Verified(hist[i])
        /\ hist[i].raised
        /\ Verified(hist[j])
        /\ hist[j].post # hist[j].pre

(***************************************************************************)
(* C16.  At most one subscription per organization: whatever deliveries of *)
(* customer.subscription.created and calls of                              *)
(* create_organization_subscription have run or are running, one after     *)
(* the other or interleaved, the organization has at most one              *)
(* organization_subscriptions row.                                         *)
(***************************************************************************)
C16_AtMostOneSubscription == Cardinality(organization_subscriptions) <= 1

C16_Witness ==
    \E i, j \in DOMAIN hist :
        /\ hist[i].conc = {hist[j].id} /\ hist[j].conc = {hist[i].id}
        /\ IsDelivery(hist[i].call) /\ IsDelivery(hist[j].call)
        /\ hist[i].pre.subs = {} /\ hist[j].pre.subs = {}
        /\ ~hist[i].raised /\ hist[j].raised
        /\ Cardinality(organization_subscriptions) = 1

(***************************************************************************)
(* C17.  reset_credits result: a reset_subscription_credits call to target *)
(* T that runs on its own, meets no failure of the store and starts from a *)
(* balance B other than T leaves credit_balance = T and records exactly    *)
(* one transaction, with amount T - B, balance_after T and type earned     *)
(* when T > B, consumed when T < B.                                        *)
(***************************************************************************)
ResetFrom(e) ==
    /\ e.call.op = "reset_credits"
    /\ Alone(e) /\ ~e.fault
    /\ e.pre.bal # e.call.credits

C17_ResetResult ==
    \A i \in DOMAIN hist :
        ResetFrom(hist[i])
        => LET e == hist[i]
               T == e.call.credits
               B == e.pre.bal
           IN /\ ~e.raised
              /\ e.post.bal = T
              /\ Len(NewRows(e)) = 1
              /\ NewRows(e)[1].amount = T - B
              /\ NewRows(e)[1].balance_after = T
              /\ NewRows(e)[1].transaction_type =
                    IF T > B THEN "earned" ELSE "consumed"

C17_Witness ==
    \E i, j \in DOMAIN hist :
        /\ ResetFrom(hist[i]) /\ ResetFrom(hist[j])
        /\ hist[i].call.credits > hist[i].pre.bal
        /\ hist[i].pre.bal > 0
        /\ hist[j].call.credits < hist[j].pre.bal

(***************************************************************************)
(* C18.  balance_after snapshot: every row added to credit_transactions    *)
(* carries as balance_after the credit_balance of the moment it is         *)
(* inserted, and balance_after of the row before it plus its own amount.   *)
(***************************************************************************)
LastRow(txs) == txs[Len(txs)]

C18_BalanceAfterSnapshot ==
    [][Len(credit_transactions') = Len(credit_transactions) + 1
       => /\ LastRow(credit_transactions').balance_after = credit_balance'
          /\ credit_transactions # << >>
                => LastRow(credit_transactions').balance_after =
                      LastRow(credit_transactions).balance_after
                      + LastRow(credit_transactions').amount]_vars

(***************************************************************************)
(* C19.  Successful consumption: a consume_credits call for an active      *)
(* credit event that runs on its own, meets no failure of the store and    *)
(* starts from a balance B of at least needed = credit_cost * quantity     *)
(* leaves credit_balance = B - needed, records exactly one transaction     *)
(* (consumed, amount -needed, source event_consumption, source_id the      *)
(* event's id, balance_after B - needed) and returns success with          *)
(* credits_consumed = needed.                                              *)
(***************************************************************************)
Needed(e) == CreditEvents[e.call.event_name].credit_cost * e.call.quantity

ConsumeWithFunds(e) ==
    /\ IsConsume(e)
    /\ Alone(e) /\ ~e.fault
    /\ e.pre.bal >= Needed(e)

C19_SuccessfulConsumption ==
    \A i \in DOMAIN hist :
        ConsumeWithFunds(hist[i])
        => LET e == hist[i]
               B == e.pre.bal
           IN /\ ~e.raised
              /\ e.post.bal = B - Needed(e)
              /\ NewRows(e) =
                    << [transaction_type |-> "consumed",
                        amount |-> 0 - Needed(e),
                        balance_after |-> B - Needed(e),
                        source |-> "event_consumption",
                        source_id |-> CreditEvents[e.call.event_name].id] >>
              /\ e.result.returned = "response"
              /\ e.result.success
              /\ e.result.credits_consumed = Needed(e)

C19_Witness ==
    \E i \in DOMAIN hist :
        /\ ConsumeWithFunds(hist[i])
        /\ hist[i].call.quantity = 2

(***************************************************************************)
(* C20.  Create transition: create_organization_subscription for an        *)
(* organization without a subscription inserts a row whose status is trial *)
(* with trial_end = trial_start + trial_period_days when the plan defines  *)
(* a trial period and active otherwise, and makes exactly one add_credits  *)
(* of plan.included_credits with source subscription and source_id the new *)
(* row's id when plan.included_credits > 0, and none otherwise.            *)
(***************************************************************************)
CreateAlone(e) ==
    /\ e.call.op = "create_organization_subscription"
    /\ Alone(e)
    /\ e.pre.subs = {}

C20_CreateTransition ==
    \A i \in DOMAIN hist :
        CreateAlone(hist[i])
        => LET e == hist[i]
               plan == SubscriptionPlans[e.call.object.price_id]
               row == CHOOSE r \in e.post.subs : TRUE
           IN /\ ~e.raised
              /\ Cardinality(e.post.subs) = 1
              /\ row.subscription_plan_id = e.call.object.price_id
              /\ IF plan.trial_period_days > 0
                 THEN /\ row.status = "trial"
                      /\ row.trial_start = "now"
                      /\ row.trial_end =
                            "now+" \o ToString(plan.trial_period_days) \o "d"
                 ELSE /\ row.status = "active"
                      /\ row.trial_start = None /\ row.trial_end = None
              /\ IF plan.included_credits > 0
                 THEN /\ NewRows(e) =
                            << [transaction_type |-> "earned",
                                amount |-> plan.included_credits,
                                balance_after |->
                                    e.pre.bal + plan.included_credits,
                                source |-> "subscription",
                                source_id |-> row.id] >>
                      /\ e.post.bal = e.pre.bal + plan.included_credits
                 ELSE /\ NewRows(e) = << >>
                      /\ e.post.bal = e.pre.bal

C20_Witness ==
    \E i, j \in DOMAIN hist :
        /\ CreateAlone(hist[i])
        /\ SubscriptionPlans[hist[i].call.object.price_id]
              .trial_period_days > 0
        /\ Len(NewRows(hist[i])) = 1
        /\ hist[j].call.op = "create_organization_subscription"
        /\ hist[j].raised

(***************************************************************************)
(* C21.  Period renewal adds, it does not reset: invoice.payment_succeeded *)
(* for an invoice not seen before, tied to a subscription whose plan has   *)
(* included_credits > 0, records one billing_history row with status paid, *)
(* makes credit_balance the old balance plus the plan's included_credits,  *)
(* and records one earned transaction of source subscription.              *)
(***************************************************************************)
SeenInvoice(db, invoice_id) ==
    \E k \in DOMAIN db.bills : db.bills[k].stripe_invoice_id = invoice_id

NewBills(e) == SubSeq(e.post.bills, Len(e.pre.bills) + 1, Len(e.post.bills))

RenewalInvoice(e) ==
    /\ e.call.op = "invoice.payment_succeeded"
    /\ e.call.object.organization_id # None
    /\ e.call.object.subscription \in PlanIds
    /\ SubscriptionPlans[e.call.object.subscription].included_credits > 0
    /\ ~SeenInvoice(e.pre, e.call.object.id)

C21_RenewalAdds ==
    \A i \in DOMAIN hist :
        RenewalInvoice(hist[i])
        => LET e == hist[i]
               credits ==
                  SubscriptionPlans[e.call.object.subscription].included_credits
           IN /\ NewBills(e) = << [stripe_invoice_id |-> e.call.object.id,
                                   status |-> "paid"] >>
              /\ e.post.bal = e.pre.bal + credits
              /\ Len(NewRows(e)) = 1
              /\ NewRows(e)[1].source = "subscription"
              /\ NewRows(e)[1].transaction_type = "earned"
              /\ NewRows(e)[1].amount = credits

(***************************************************************************)
(* C22.  Cancel keeps the balance: customer.subscription.deleted for an    *)
(* organization with a subscription leaves the row with status cancelled   *)
(* and cancelled_at set, and leaves credit_balance, credit_transactions    *)
(* and the row's plan as they were.                                        *)
(***************************************************************************)
DeletedDelivery(e) ==
    /\ e.call.op = "customer.subscription.deleted"
    /\ e.call.object.organization_id # None
    /\ e.pre.subs # {}

FailedInvoice(e) ==
    /\ e.call.op = "invoice.payment_failed"
    /\ e.call.object.organization_id # None
    /\ e.call.object.subscription # None
    /\ e.pre.subs # {}

HandledTypes ==
    {"checkout.session.completed", "customer.subscription.created",
     "customer.subscription.updated", "customer.subscription.deleted",
     "invoice.payment_succeeded", "invoice.payment_failed",
     "payment_intent.succeeded", "payment_intent.payment_failed"}

SubscriptionCheckout(e) ==
    /\ e.call.op = "checkout.session.completed"
    /\ e.call.object.mode = "subscription"

UnknownTypeRequest(e) ==
    /\ IsWebhookRequest(e)
    /\ Verified(e)
    /\ e.call.payload.op \notin HandledTypes

C24_UnmappedEventsChangeNothing ==
    \A i \in DOMAIN hist :
        (SubscriptionCheckout(hist[i]) \/ UnknownTypeRequest(hist[i]))
        => /\ ~hist[i].raised
           /\ hist[i].post = hist[i].pre

C24_Witness ==
    \E i, j \in DOMAIN hist :
        /\ SubscriptionCheckout(hist[i])
        /\ hist[i].call.object.organization_id # None
        /\ UnknownTypeRequest(hist[j])
        /\ hist[j].pre.bal > 0

(***************************************************************************)
(* C25.  Reactivate: the reactivate operation, asked by a user allowed to  *)
(* bill for an organization that has a subscription, leaves the row with   *)
(* cancel_at_period_end = false and leaves the row's status and plan and   *)
(* the organization's credit_balance as they were.                         *)
(***************************************************************************)
ReactivateRequest(e) ==
    /\ e.call.op = "reactivate_subscription"
    /\ e.call.authorized
    /\ e.pre.subs # {}

C25_Reactivate ==
    \A i \in DOMAIN hist :
        ReactivateRequest(hist[i])
        => LET e == hist[i]
               before == CHOOSE r \in e.pre.subs : TRUE
           IN /\ Cardinality(e.post.subs) = 1
              /\ \A r \in e.post.subs :
                    /\ r.cancel_at_period_end = FALSE
                    /\ r.status = before.status
                    /\ r.subscription_plan_id = before.subscription_plan_id
              /\ e.post.bal = e.pre.bal

(***************************************************************************)
(* C26.  Acknowledgment does not wait for reconciliation: every webhook    *)
(* request that carries a signature header is answered with the success    *)
(* response before its processing runs, the answer writes nothing, and it  *)
(* is the same whether the processing later fails verification, raises in  *)
(* a handler or succeeds.                                                  *)
(***************************************************************************)
SuccessResponse ==
    [returned |-> "response", status_code |-> 200, status |-> "success"]

IsProcessing(e) == e.call.op = "handle_stripe_webhook"

C26_AcknowledgmentDoesNotWait ==
    /\ \A i \in DOMAIN hist :
          (IsWebhookRequest(hist[i]) /\ hist[i].call.signature # << >>)
          => /\ hist[i].result = SuccessResponse
             /\ hist[i].post = hist[i].pre
    /\ \A j \in DOMAIN hist :
          IsProcessing(hist[j])
          => /\ hist[j].call.request < j
             /\ IsWebhookRequest(hist[hist[j].call.request])
             /\ hist[hist[j].call.request].result = SuccessResponse

C26_Witness ==
    \E j, k \in DOMAIN hist :
        /\ IsProcessing(hist[j]) /\ IsProcessing(hist[k])
        /\ hist[j].raised
        /\ hist[j].post # hist[j].pre
        /\ hist[k].raised
        /\ ~Verified(hist[hist[k].call.request])

(***************************************************************************)
(* C27.  Non-negative balance: in every reachable state, under any order   *)
(* and interleaving of add_credits, reset_credits to a plan's              *)
(* included_credits and consume_credits, credit_balance >= 0 and every     *)
(* recorded balance_after >= 0.                                            *)
(***************************************************************************)
C27_NonNegativeBalance ==
    /\ credit_balance >= 0
    /\ \A k \in DOMAIN credit_transactions :
          credit_transactions[k].balance_after >= 0

C27_Witness ==
    \E i, j \in DOMAIN hist :
        /\ i # j
        /\ IsConsume(hist[i]) /\ IsConsume(hist[j])
        /\ hist[i].conc = {hist[j].id}
        /\ Succeeded(hist[i]) /\ Succeeded(hist[j])
        /\ hist[i].pre.bal = 1
        /\ credit_balance = 0

(***************************************************************************)
(* C28.  Payment recovery on the same invoice: when invoice.payment_failed *)
(* for a subscription invoice is followed by invoice.payment_succeeded for *)
(* the same invoice id, the succeeded handler completes, billing_history   *)
(* holds a paid row for the invoice and credit_balance has grown by the    *)
(* plan's included_credits.  The case checked is the one where the         *)
(* organization's subscription row exists, so that the allocation can be   *)
(* paired with it.                                                         *)
(***************************************************************************)
RecoveredInvoice(failed, succeeded) ==
    /\ failed.call.op = "invoice.payment_failed"
    /\ succeeded.call.op = "invoice.payment_succeeded"
    /\ failed.call.object = succeeded.call.object
    /\ succeeded.call.object.organization_id # None
    /\ succeeded.call.object.subscription \in PlanIds
    /\ succeeded.pre.subs # {}

C28_PaymentRecovery ==
    \A i, j \in DOMAIN hist :
        (i < j /\ RecoveredInvoice(hist[i], hist[j]))
        => LET e == hist[j]
               credits ==
                  SubscriptionPlans[e.call.object.subscription].included_credits
           IN /\ ~e.raised
              /\ \E k \in DOMAIN e.post.bills :
                    /\ e.post.bills[k].stripe_invoice_id = e.call.object.id
                    /\ e.post.bills[k].status = "paid"
              /\ e.post.bal = e.pre.bal + credits

(***************************************************************************)
(* C29.  Invitations are accepted only while pending and unexpired:        *)
(* process_invitation assigns the role and marks the invitation accepted   *)
(* only if the invitation's status is pending and its expiry time has not  *)
(* passed; a token whose invitation is accepted, cancelled or expired      *)
(* leaves user_roles unchanged.                                            *)
(***************************************************************************)
IsProcessInvitation(e) == e.call.op = "process_invitation"

InvitationOf(db, token) ==
    db.invitations[CHOOSE k \in TokenRows(db, token) : TRUE]

PendingAndUnexpired(db, token) ==
    /\ TokenRows(db, token) # {}
    /\ InvitationOf(db, token).status = "pending"
    /\ db.now <= InvitationOf(db, token).expires_at

GrantsMembership(e) ==
    \/ e.post.user_roles # e.pre.user_roles
    \/ /\ TokenRows(e.post, e.call.token) # {}
       /\ InvitationOf(e.post, e.call.token).status = "accepted"
       /\ InvitationOf(e.pre, e.call.token).status # "accepted"

C29_AcceptedOnlyWhilePending ==
    \A i \in DOMAIN hist :
        IsProcessInvitation(hist[i])
        => LET e == hist[i] IN
           /\ GrantsMembership(e) => PendingAndUnexpired(e.pre, e.call.token)
           /\ ~PendingAndUnexpired(e.pre, e.call.token)
                 => e.post.user_roles = e.pre.user_roles

(***************************************************************************)
(* C30.  Upgrade leaves the grace flag alone: when                         *)
(* customer.subscription.created arrives for an organization with an       *)
(* existing subscription and the new plan's included_credits are not lower *)
(* than the current plan's, cancel_at_period_end after the handler equals  *)
(* its value before.                                                       *)
(***************************************************************************)
GraceFlag(db) == (CHOOSE r \in db.subs : TRUE).cancel_at_period_end

UpgradeDelivery(e) ==
    /\ e.call.op = "customer.subscription.created"
    /\ e.call.object.organization_id # None
    /\ e.call.object.price_id \in PlanIds
    /\ e.pre.subs # {}
    /\ SubscriptionPlans[e.call.object.price_id].included_credits >=
          SubscriptionPlans[PlanOf(e.pre)].included_credits

C30_UpgradeKeepsGraceFlag ==
    \A i \in DOMAIN hist :
        UpgradeDelivery(hist[i])
        => /\ Cardinality(hist[i].post.subs) = 1
           /\ GraceFlag(hist[i].post) = GraceFlag(hist[i].pre)

\* An upgrade after a downgrade has set the flag: the plan changes and the
\* flag stays set.
C30_Witness ==
    \E j \in DOMAIN hist :
        /\ UpgradeDelivery(hist[j])
        /\ GraceFlag(hist[j].pre) /\ GraceFlag(hist[j].post)
        /\ PlanOf(hist[j].post) # PlanOf(hist[j].pre)

====
